---------------------------- MODULE Spec2Model ----------------------------
(***************************************************************************)
(* The `chat` on-chain program: one instruction handler, `initialize`,     *)
(* which logs "Greetings from: <program id>" and returns Ok(()).           *)
(*                                                                         *)
(* A Pubkey is its 32 bytes.  The declared id is the byte string that the  *)
(* base58 literal of declare_id! decodes to, and the {:?} formatting of a  *)
(* Pubkey is the base58 encoding of its bytes; both conversions are        *)
(* computed digit by digit.  A text is a sequence of one-character         *)
(* strings.                                                                *)
(***************************************************************************)
EXTENDS Integers, Sequences, FiniteSets, TLC

(* Number of invocations of the instruction that the runtime starts. *)
NumInvocations == 2

(* Largest balance an account starts with. *)
MaxLamports == 1

--------------------------------------------------------------------------
(* Base58 *)

Alphabet ==
    << "1","2","3","4","5","6","7","8","9",
       "A","B","C","D","E","F","G","H","J","K","L","M","N","P","Q","R","S",
       "T","U","V","W","X","Y","Z",
       "a","b","c","d","e","f","g","h","i","j","k","m","n","o","p","q","r",
       "s","t","u","v","w","x","y","z" >>

Reverse(s) == [k \in 1..Len(s) |-> s[Len(s) + 1 - k]]

RECURSIVE LeadingCount(_, _)
(* How many elements equal to z the sequence s starts with. *)
LeadingCount(s, z) ==
    IF s = <<>> \/ s[1] # z THEN 0 ELSE 1 + LeadingCount(Tail(s), z)

RECURSIVE MulAdd(_, _, _, _)
(* digits is a number in base `to`, least significant digit first; the
   result is digits * from + carry in the same representation. *)
MulAdd(digits, from, to, carry) ==
    IF digits = <<>>
    THEN IF carry = 0 THEN <<>>
         ELSE <<carry % to>> \o MulAdd(<<>>, from, to, carry \div to)
    ELSE LET v == digits[1] * from + carry
         IN  <<v % to>> \o MulAdd(Tail(digits), from, to, v \div to)

RECURSIVE Rebase(_, _, _, _)
(* Feeds the digits of input (most significant first, base `from`) into the
   accumulator acc (least significant first, base `to`). *)
Rebase(input, from, to, acc) ==
    IF input = <<>> THEN acc
    ELSE Rebase(Tail(input), from, to, MulAdd(acc, from, to, input[1]))

Zeros(n) == [k \in 1..n |-> 0]

(* bs58_encode that forgets the leading zero bytes. *)
bs58_encode_no_leading(bytes) ==
    LET digits == Rebase(bytes, 256, Len(Alphabet), <<>>)
    IN  [k \in 1..Len(digits) |-> Alphabet[Reverse(digits)[k] + 1]]

(* bs58 encoding of a byte string, as the Debug formatting of a Pubkey
   prints it. *)
bs58_encode(bytes) ==
    LET z      == LeadingCount(bytes, 0)
        digits == Rebase(bytes, 256, Len(Alphabet), <<>>) \o Zeros(z)
    IN  [k \in 1..Len(digits) |-> Alphabet[Reverse(digits)[k] + 1]]

DigitOf(c) == CHOOSE d \in 0..(Len(Alphabet) - 1) : Alphabet[d + 1] = c

(* bs58 decoding of a text, as declare_id! parses its literal. *)
bs58_decode(text) ==
    LET z      == LeadingCount(text, "1")
        values == [k \in 1..Len(text) |-> DigitOf(text[k])]
    IN  Reverse(Rebase(values, Len(Alphabet), 256, <<>>) \o Zeros(z))

--------------------------------------------------------------------------
(* Program ids and accounts *)

(* declare_id!("CqDSGGxfagLcVq8KYQjz4iRnPRxVkVSpVp2bnj19nHVj") *)
DeclaredIdLiteral ==
    << "C","q","D","S","G","G","x","f","a","g","L","c","V","q","8","K",
       "Y","Q","j","z","4","i","R","n","P","R","x","V","k","V","S","p",
       "V","p","2","b","n","j","1","9","n","H","V","j" >>

ID == bs58_decode(DeclaredIdLiteral)

(* Two other program ids a context may carry: the all-zero key (the system
   program, whose base58 form is thirty-two "1"s) and the token program. *)
SystemProgramId == [k \in 1..Len(ID) |-> 0]

SystemProgramLiteral == [k \in 1..Len(ID) |-> "1"]

TokenProgramLiteral ==
    << "T","o","k","e","n","k","e","g","Q","f","e","Z","y","i","N","w",
       "A","J","b","N","b","G","K","P","F","X","C","W","u","B","v","f",
       "9","S","s","6","2","3","V","Q","5","D","A" >>

TokenProgramId == bs58_decode(TokenProgramLiteral)

ProgramIds == {ID, SystemProgramId, TokenProgramId}

ProgramIdLiterals ==
    {DeclaredIdLiteral, SystemProgramLiteral, TokenProgramLiteral}

(* Pubkey::from_str, tabulated over the literals above. *)
from_str == [t \in ProgramIdLiterals |-> bs58_decode(t)]

AccountKeys == {"alice"}

(* The account lists a caller may pass; Initialize declares no accounts, so
   all of them arrive as remaining accounts. *)
AccountLists == {<<>>, <<"alice">>}

AccountState ==
    [lamports : 0..MaxLamports, owner : {SystemProgramId}, data : {<<>>}]

Invocations == 1..NumInvocations

NoContext == [program_id |-> <<>>, remaining_accounts |-> <<>>]

--------------------------------------------------------------------------
(* msg!("Greetings from: {:?}", ctx.program_id) *)

GreetingPrefix ==
    << "G","r","e","e","t","i","n","g","s"," ","f","r","o","m",":"," " >>

(* <Pubkey as Debug>::fmt, tabulated over the ids a context may carry. *)
fmt_debug == [p \in ProgramIds |-> bs58_encode(p)]

(* A greeting that also depends on the accounts the caller passed. *)
FormatGreetingWithAccounts(c) ==
    GreetingPrefix \o fmt_debug[c.program_id]
        \o [k \in 1..Len(c.remaining_accounts) |-> "+"]

FormatGreeting(c) == GreetingPrefix \o fmt_debug[c.program_id]

--------------------------------------------------------------------------
VARIABLES
    accounts,   \* the ledger: account key -> lamports, owner, data
    pc,         \* position of each invocation in `initialize`
    ctx,        \* the Context each invocation was handed
    result,     \* what each invocation returned
    log         \* the program log, oldest line first

vars == <<accounts, pc, ctx, result, log>>

Init ==
    /\ accounts \in [AccountKeys -> AccountState]
    /\ pc = [i \in Invocations |-> "idle"]
    /\ ctx = [i \in Invocations |-> NoContext]
    /\ result = [i \in Invocations |-> "None"]
    /\ log = <<>>

(* The runtime calls initialize(ctx). *)
Invoke(i) ==
    /\ pc[i] = "idle"
    /\ \E p \in ProgramIds, ra \in AccountLists :
          ctx' = [ctx EXCEPT ![i] = [program_id |-> p, remaining_accounts |-> ra]]
    /\ pc' = [pc EXCEPT ![i] = "entered"]
    /\ UNCHANGED <<accounts, result, log>>

(* msg! that writes nothing. *)
MsgDropped(i) ==
    /\ pc[i] = "entered"
    /\ pc' = [pc EXCEPT ![i] = "logged"]
    /\ UNCHANGED <<accounts, ctx, result, log>>

(* msg! that waits until no other invocation is inside the handler. *)
MsgExclusive(i) ==
    /\ pc[i] = "entered"
    /\ \A j \in Invocations \ {i} : pc[j] \notin {"entered", "logged"}
    /\ log' = Append(log, [invocation |-> i, line |-> FormatGreeting(ctx[i])])
    /\ pc' = [pc EXCEPT ![i] = "logged"]
    /\ UNCHANGED <<accounts, ctx, result>>

(* msg!(...) appends one line to the log. *)
Msg(i) ==
    /\ pc[i] = "entered"
    /\ log' = Append(log, [invocation |-> i, line |-> FormatGreeting(ctx[i])])
    /\ pc' = [pc EXCEPT ![i] = "logged"]
    /\ UNCHANGED <<accounts, ctx, result>>

(* A return that rejects a context whose program id is not the declared one. *)
ReturnChecked(i) ==
    /\ pc[i] = "logged"
    /\ result' = [result EXCEPT ![i] =
                     IF ctx[i].program_id = ID THEN "Ok" ELSE "Err"]
    /\ pc' = [pc EXCEPT ![i] = "returned"]
    /\ UNCHANGED <<accounts, ctx, log>>

(* A return that first takes one lamport from each account it was passed. *)
ReturnDebiting(i) ==
    /\ pc[i] = "logged"
    /\ accounts' = [a \in AccountKeys |->
                       IF /\ \E k \in 1..Len(ctx[i].remaining_accounts) :
                                ctx[i].remaining_accounts[k] = a
                          /\ accounts[a].lamports > 0
                       THEN [accounts[a] EXCEPT !.lamports = @ - 1]
                       ELSE accounts[a]]
    /\ result' = [result EXCEPT ![i] = "Ok"]
    /\ pc' = [pc EXCEPT ![i] = "returned"]
    /\ UNCHANGED <<ctx, log>>

(* Ok(()) *)
ReturnOk(i) ==
    /\ pc[i] = "logged"
    /\ result' = [result EXCEPT ![i] = "Ok"]
    /\ pc' = [pc EXCEPT ![i] = "returned"]
    /\ UNCHANGED <<accounts, ctx, log>>

Next == \E i \in Invocations : Invoke(i) \/ Msg(i) \/ ReturnOk(i)

Spec == Init /\ [][Next]_vars

(* A started invocation runs to its end: the handler has no await, lock or
   loop, so each of its two statements is taken once it is reached. *)
FairSpec ==
    /\ Spec
    /\ \A i \in Invocations : WF_vars(Msg(i)) /\ WF_vars(ReturnOk(i))

TypeOK ==
    /\ accounts \in [AccountKeys -> AccountState]
    /\ pc \in [Invocations -> {"idle", "entered", "logged", "returned"}]
    /\ result \in [Invocations -> {"None", "Ok", "Err"}]
    /\ ctx \in [Invocations ->
                 [program_id : ProgramIds \cup {<<>>}, remaining_accounts : AccountLists]]
    /\ \A k \in 1..Len(log) : log[k].invocation \in Invocations

--------------------------------------------------------------------------
(* Helpers of the properties *)

Started(i) == pc[i] # "idle"

PastMsg(i) == pc[i] \in {"logged", "returned"}

Returned(i) == pc[i] = "returned"

EntriesOf(i) == {k \in 1..Len(log) : log[k].invocation = i}

LineOf(i) == log[CHOOSE k \in EntriesOf(i) : TRUE].line

HasPrefix(line) ==
    /\ Len(line) >= Len(GreetingPrefix)
    /\ SubSeq(line, 1, Len(GreetingPrefix)) = GreetingPrefix

IdText(line) == SubSeq(line, Len(GreetingPrefix) + 1, Len(line))

--------------------------------------------------------------------------
(* C1: every invocation of initialize that returns, returns Ok(()), whatever
   program id and accounts its context carries and whatever ran before; no
   invocation ever holds an error. *)
C1_AlwaysOk ==
    \A i \in Invocations :
        /\ result[i] # "Err"
        /\ Returned(i) => result[i] = "Ok"

(* An invocation under a foreign program id, with accounts passed, returned
   after another invocation had already returned. *)
C1_Witness ==
    \E i, j \in Invocations :
        /\ i # j
        /\ Returned(i) /\ Returned(j)
        /\ ctx[i].program_id # ID
        /\ ctx[i].remaining_accounts # <<>>
        /\ EntriesOf(j) # {} /\ EntriesOf(i) # {}
        /\ (CHOOSE k \in EntriesOf(j) : TRUE) < (CHOOSE k \in EntriesOf(i) : TRUE)
        /\ result[i] = "Ok"

C3_NoStateWritten ==
    [][ /\ accounts' = accounts
        /\ \A i \in Invocations :
              /\ Started(i) => ctx'[i] = ctx[i]
              /\ pc'[i] = pc[i] => result'[i] = result[i]
        /\ \/ log' = log
           \/ \E i \in Invocations :
                 /\ pc[i] = "entered"
                 /\ log' = Append(log, log'[Len(log')])
                 /\ log'[Len(log')].invocation = i ]_vars

(* An invocation that was passed funded accounts has returned. *)
C3_Witness ==
    \E i \in Invocations :
        /\ Returned(i)
        /\ ctx[i].remaining_accounts # <<>>
        /\ \A k \in 1..Len(ctx[i].remaining_accounts) :
               accounts[ctx[i].remaining_accounts[k]].lamports > 0

(* C4: every invocation that has started eventually returns, however the
   steps of the invocations interleave. *)
C4_Terminates ==
    \A i \in Invocations : (pc[i] \in {"entered", "logged"}) ~> Returned(i)

(* Two invocations overlapped: i logged first, j logged after it and has
   returned while i has not. *)
C4_Witness ==
    \E i, j \in Invocations :
        /\ i # j
        /\ pc[i] = "logged" /\ Returned(j)
        /\ Len(log) = 2
        /\ log[1].invocation = i /\ log[2].invocation = j

(* C5: an invocation has exactly one log entry once it is past msg! and none
   before; one that returned Ok has its greeting in the log; when no
   invocation is in flight the log holds as many entries as invocations
   have completed. *)
C5_OneLinePerInvocation ==
    /\ \A i \in Invocations :
          /\ Cardinality(EntriesOf(i)) = IF PastMsg(i) THEN 1 ELSE 0
          /\ result[i] = "Ok" => EntriesOf(i) # {} /\ HasPrefix(LineOf(i))
    /\ (\A i \in Invocations : pc[i] \in {"idle", "returned"})
          => Len(log) = Cardinality({i \in Invocations : Returned(i)})

(* All invocations have completed. *)
C5_Witness ==
    /\ \A i \in Invocations : Returned(i) /\ result[i] = "Ok"
    /\ Len(log) = NumInvocations

(* C6: two invocations with the same program id emit the same line and
   return the same result, whatever accounts each was passed and in
   whatever order they ran. *)
C6_ProgramIdDecides ==
    \A i, j \in Invocations :
        (PastMsg(i) /\ PastMsg(j) /\ ctx[i].program_id = ctx[j].program_id)
            => /\ LineOf(i) = LineOf(j)
               /\ (Returned(i) /\ Returned(j)) => result[i] = result[j]

(* Two invocations with the same program id and different accounts have
   both returned. *)
C6_Witness ==
    \E i, j \in Invocations :
        /\ i # j
        /\ Returned(i) /\ Returned(j)
        /\ ctx[i].program_id = ctx[j].program_id
        /\ ctx[i].remaining_accounts # ctx[j].remaining_accounts

==========================================================================
